---- MODULE Spec2Model ----
(***************************************************************************)
(* Model of src/app.py: the Worker of the CalDAV reminder bot.             *)
(*                                                                         *)
(* One asyncio event loop runs two kinds of tasks, both wrapped in run_at  *)
(* (sleep until a deadline, then await a handler):                         *)
(*   - the sync cycle (Worker.sync), which has no await inside and is      *)
(*     therefore one atomic step;                                          *)
(*   - the wake-timer (Worker.process_reminders), whose only suspension    *)
(*     point after the sleep is the await of bot.send_message.             *)
(* Time is a discrete clock `now`; datetimes are integers.                 *)
(***************************************************************************)
EXTENDS Integers, Sequences, FiniteSets, TLC

\* -------------------------------------------------------------- bounds
\* The clock runs from 0 to MaxTime.
MaxTime == 4

\* Config.SYNC_INTERVAL_IN_SEC (environment-supplied, default 1800),
\* scaled to the model's clock.
SYNC_INTERVAL_IN_SEC == 2

\* ------------------------------------------------ the remote calendar
\* The events the calendar server may hold: uid -> start and alarm
\* triggers (offsets relative to the start; an event may have none).
Catalog ==
  [u \in 1..4 |->
     CASE u = 1 -> [dtstart |-> 2, triggers |-> <<-1, 0>>]
       [] u = 2 -> [dtstart |-> 3, triggers |-> <<0>>]
       [] u = 3 -> [dtstart |-> 3, triggers |-> <<-1>>]
       [] OTHER -> [dtstart |-> 4, triggers |-> <<>>]]

Uids == DOMAIN Catalog

\* Reminder (dataclass, order=True): fields dt, valarm, vevent.
\* fetch_events computes dt = dtstart + valarm.trigger.value.
\* valarm and vevent are component objects: modelled by their identity
\* in the calendar (alarm i of event uid; event uid).
Reminder(uid, i) ==
  [dt     |-> Catalog[uid].dtstart + Catalog[uid].triggers[i],
   valarm |-> <<uid, i>>,
   vevent |-> uid]

AllReminders ==
  UNION {{Reminder(u, i) : i \in 1..Len(Catalog[u].triggers)} : u \in Uids}

\* Event (dataclass): vevent and the reminders of its alarms, in order.
Event(uid) ==
  [vevent    |-> uid,
   reminders |-> [i \in 1..Len(Catalog[uid].triggers) |-> Reminder(uid, i)]]

Min(S) == CHOOSE x \in S : \A y \in S : x <= y

RECURSIVE SeqOfSet(_)
SeqOfSet(S) == IF S = {} THEN <<>> ELSE <<Min(S)>> \o SeqOfSet(S \ {Min(S)})

\* CaldavHandler.fetch_events: the events found by the search, each with
\* its reminders (one per alarm component).
fetch_events(S) == [k \in 1..Cardinality(S) |-> Event(SeqOfSet(S)[k])]

Range(s) == {s[i] : i \in 1..Len(s)}

\* ------------------------------------------------------- extraction
\* The filter loop of extract_reminders: every reminder of every event,
\* in event order then alarm order, kept when reminder.dt >= now.
RECURSIVE Collect(_, _)
Collect(events, t) ==
  IF events = <<>> THEN <<>>
  ELSE SelectSeq(Head(events).reminders, LAMBDA r : r.dt >= t)
         \o Collect(Tail(events), t)

\* Reminder.__lt__ as @dataclass(order=True) generates it: the tuples
\* (dt, valarm, vevent) are compared field by field.  With equal dt the
\* comparison falls through to the valarm components, which define no
\* ordering: comparing two different components raises TypeError.
ReminderLt(a, b) ==
  IF a.dt # b.dt THEN (IF a.dt < b.dt THEN "lt" ELSE "ge")
  ELSE IF a.valarm # b.valarm THEN "TypeError"
  ELSE IF a.vevent # b.vevent THEN "TypeError"
  ELSE "ge"

Raised == [ok |-> FALSE, val |-> <<>>]
Returned(v) == [ok |-> TRUE, val |-> v]

\* One insertion of list.sort (stable: x goes after the elements that
\* are not greater); a raising comparison aborts the sort.
RECURSIVE InsertSorted(_, _)
InsertSorted(s, x) ==
  IF s = <<>> THEN Returned(<<x>>)
  ELSE LET last == s[Len(s)]
           c    == ReminderLt(x, last)
       IN  IF c = "TypeError" THEN Raised
           ELSE IF c = "ge" THEN Returned(Append(s, x))
           ELSE LET rest == InsertSorted(SubSeq(s, 1, Len(s) - 1), x)
                IN  IF rest.ok THEN Returned(Append(rest.val, last)) ELSE rest

\* extract_reminders without the sort.
SortReminders_Unsorted(s) == Returned(s)

\* reminders.sort()
RECURSIVE SortReminders(_)
SortReminders(s) ==
  IF s = <<>> THEN Returned(<<>>)
  ELSE LET front == SortReminders(SubSeq(s, 1, Len(s) - 1))
       IN  IF front.ok THEN InsertSorted(front.val, s[Len(s)]) ELSE front

\* CaldavHandler.extract_reminders: filter, then sort.  The result is
\* Returned(list) or Raised (the TypeError of the sort).
extract_reminders(events, t) == SortReminders(Collect(events, t))

\* ------------------------------------------------------------ state
VARIABLES
  now,               \* datetime.now(tz), the wall clock
  remote,            \* uids of the events the calendar search returns
  cals,              \* Worker.cals: "None" or "fetched"
  sorted_reminders,  \* Worker.sorted_reminders
  reminder_task,     \* Worker.reminder_task: 0 (None) or a task id
  tasks,             \* the loop's unfinished run_at(process_reminders) tasks
  sync_alive,        \* a run_at(sync) task (or the first sync) is pending
  next_sync_dt,      \* the deadline of the pending sync task
  sent,              \* history: send_message calls begun, per reminder
  cycles,            \* history: number of sync cycles run
  last_result,       \* history: how the last sync cycle ended
  prev_sync          \* history: input of the last successful sync cycle,
                     \* forgotten as soon as a drain runs

vars == <<now, remote, cals, sorted_reminders, reminder_task, tasks,
          sync_alive, next_sync_dt, sent, cycles, last_result, prev_sync>>

NoSync == [remote |-> {}, at |-> -1]

\* A task is "sleeping" (in run_at's asyncio.sleep), "sending" (its
\* process_reminders is suspended in await bot.send_message) or
\* "cancelled" (cancel() was called, CancelledError not yet delivered).
Sleeping == {id \in DOMAIN tasks : tasks[id].st = "sleeping"}
Sending  == {id \in DOMAIN tasks : tasks[id].st = "sending"}

Without(ts, id) == [i \in DOMAIN ts \ {id} |-> ts[i]]

FreshId(ts) == Min({i \in 1..(Cardinality(DOMAIN ts) + 1) : i \notin DOMAIN ts})

\* Worker.__init__ and Worker.run: empty queue, no timer, first sync
\* created without delay.  The calendar content is arbitrary.
Init ==
  /\ now = 0
  /\ remote \in SUBSET Uids
  /\ cals = "None"
  /\ sorted_reminders = <<>>
  /\ reminder_task = 0
  /\ tasks = <<>>
  /\ sync_alive = TRUE
  /\ next_sync_dt = 0
  /\ sent = [r \in AllReminders |-> 0]
  /\ cycles = 0
  /\ last_result = "none"
  /\ prev_sync = NoSync

\* -------------------------------------------------------- operations
\* task.cancel(): a task that has finished is not affected; a pending
\* one gets CancelledError at its await (the sleep or the send).
Cancel(ts, id) ==
  IF id \in DOMAIN ts /\ ts[id].st \in {"sleeping", "sending"}
  THEN [ts EXCEPT ![id].st = "cancelled"]
  ELSE ts

\* scheduleReminderTask without the cancel of the armed timer.
scheduleReminderTask_NoCancel(q, rt, ts) ==
  IF Len(q) > 0
  THEN LET id == FreshId(ts)
       IN  [reminder_task |-> id,
            tasks |-> ts @@ (id :> [st |-> "sleeping", dt |-> q[1].dt])]
  ELSE [reminder_task |-> rt, tasks |-> ts]

\* scheduleReminderTask arming for the last element of the queue.
scheduleReminderTask_ArmLast(q, rt, ts) ==
  LET ts1 == IF rt # 0 THEN Cancel(ts, rt) ELSE ts
  IN  IF Len(q) > 0
      THEN LET id == FreshId(ts1)
           IN  [reminder_task |-> id,
                tasks |-> ts1 @@ (id :> [st |-> "sleeping", dt |-> q[Len(q)].dt])]
      ELSE [reminder_task |-> rt, tasks |-> ts1]

\* Worker.scheduleReminderTask on queue q, handle rt and tasks ts.
scheduleReminderTask(q, rt, ts) ==
  LET ts1 == IF rt # 0 THEN Cancel(ts, rt) ELSE ts
  IN  IF Len(q) > 0
      THEN LET id == FreshId(ts1)
           IN  [reminder_task |-> id,
                tasks |-> ts1 @@ (id :> [st |-> "sleeping", dt |-> q[1].dt])]
      ELSE [reminder_task |-> rt, tasks |-> ts1]

\* sync without the comparison of the new list with the held one.
sync_effect_AlwaysReschedule(calOut, evOut) ==
  LET calsRaised == cals = "None" /\ calOut = "raise"
      events     == fetch_events(remote)
      new        == extract_reminders(events, now)
      raised     == \/ calsRaised
                    \/ evOut = "raise"
                    \/ (Len(events) > 0 /\ ~new.ok)
      replace    == ~raised /\ Len(events) > 0
      sched      == scheduleReminderTask(new.val, reminder_task, tasks)
  IN  [cals             |-> IF calsRaised THEN "None" ELSE "fetched",
       sorted_reminders |-> IF replace THEN new.val ELSE sorted_reminders,
       reminder_task    |-> IF replace THEN sched.reminder_task
                            ELSE reminder_task,
       tasks            |-> IF replace THEN sched.tasks ELSE tasks,
       sync_alive       |-> ~raised,
       next_sync_dt     |-> IF raised THEN next_sync_dt
                            ELSE now + SYNC_INTERVAL_IN_SEC,
       result           |-> IF raised THEN "raised"
                            ELSE IF Len(events) = 0 THEN "skipped"
                            ELSE IF replace THEN "replaced"
                            ELSE "unchanged"]

\* sync that drops the queue and its timer when the cycle raises.
sync_effect_ResetFirst(calOut, evOut) ==
  LET calsRaised == cals = "None" /\ calOut = "raise"
      events     == fetch_events(remote)
      new        == extract_reminders(events, now)
      raised     == \/ calsRaised
                    \/ evOut = "raise"
                    \/ (Len(events) > 0 /\ ~new.ok)
      replace    == ~raised /\ Len(events) > 0 /\ new.val # sorted_reminders
      sched      == scheduleReminderTask(new.val, reminder_task, tasks)
  IN  [cals             |-> IF calsRaised THEN "None" ELSE "fetched",
       sorted_reminders |-> IF replace THEN new.val
                            ELSE IF raised THEN <<>>
                            ELSE sorted_reminders,
       reminder_task    |-> IF replace THEN sched.reminder_task
                            ELSE reminder_task,
       tasks            |-> IF replace THEN sched.tasks
                            ELSE IF raised THEN Cancel(tasks, reminder_task)
                            ELSE tasks,
       sync_alive       |-> ~raised,
       next_sync_dt     |-> IF raised THEN next_sync_dt
                            ELSE now + SYNC_INTERVAL_IN_SEC,
       result           |-> IF raised THEN "raised"
                            ELSE IF Len(events) = 0 THEN "skipped"
                            ELSE IF replace THEN "replaced"
                            ELSE "unchanged"]

\* sync that schedules the next cycle only when it replaced the queue.
sync_effect_NextOnlyOnChange(calOut, evOut) ==
  LET calsRaised == cals = "None" /\ calOut = "raise"
      events     == fetch_events(remote)
      new        == extract_reminders(events, now)
      raised     == \/ calsRaised
                    \/ evOut = "raise"
                    \/ (Len(events) > 0 /\ ~new.ok)
      replace    == ~raised /\ Len(events) > 0 /\ new.val # sorted_reminders
      sched      == scheduleReminderTask(new.val, reminder_task, tasks)
  IN  [cals             |-> IF calsRaised THEN "None" ELSE "fetched",
       sorted_reminders |-> IF replace THEN new.val ELSE sorted_reminders,
       reminder_task    |-> IF replace THEN sched.reminder_task
                            ELSE reminder_task,
       tasks            |-> IF replace THEN sched.tasks ELSE tasks,
       sync_alive       |-> replace,
       next_sync_dt     |-> IF ~replace THEN next_sync_dt
                            ELSE now + SYNC_INTERVAL_IN_SEC,
       result           |-> IF raised THEN "raised"
                            ELSE IF Len(events) = 0 THEN "skipped"
                            ELSE IF replace THEN "replaced"
                            ELSE "unchanged"]

\* Worker.sync from its first line to the end of its finally block, as
\* the new values of the fields it may change.  calOut and evOut are the
\* outcomes of fetch_calendars (only called while cals is None) and of
\* fetch_events: "ok" or "raise".  fetch_calendars cannot return None
\* here, the Worker only exists after a successful login.
\* An exception anywhere in the try block skips the assignment of the
\* local next_sync_dt; the finally block then reads it unbound, raises
\* UnboundLocalError, and creates no next run_at(sync) task.
sync_effect(calOut, evOut) ==
  LET calsRaised == cals = "None" /\ calOut = "raise"
      events     == fetch_events(remote)
      new        == extract_reminders(events, now)
      raised     == \/ calsRaised
                    \/ evOut = "raise"
                    \/ (Len(events) > 0 /\ ~new.ok)
      replace    == ~raised /\ Len(events) > 0 /\ new.val # sorted_reminders
      sched      == scheduleReminderTask(new.val, reminder_task, tasks)
  IN  [cals             |-> IF calsRaised THEN "None" ELSE "fetched",
       sorted_reminders |-> IF replace THEN new.val ELSE sorted_reminders,
       reminder_task    |-> IF replace THEN sched.reminder_task
                            ELSE reminder_task,
       tasks            |-> IF replace THEN sched.tasks ELSE tasks,
       sync_alive       |-> ~raised,
       next_sync_dt     |-> IF raised THEN next_sync_dt
                            ELSE now + SYNC_INTERVAL_IN_SEC,
       result           |-> IF raised THEN "raised"
                            ELSE IF Len(events) = 0 THEN "skipped"
                            ELSE IF replace THEN "replaced"
                            ELSE "unchanged"]

\* process_next_reminder without the test reminder.dt <= now.
process_next_reminder_NoDueTest(q, t) ==
  IF Len(q) > 0
  THEN [queue |-> Tail(q), popped |-> <<Head(q)>>, result |-> TRUE]
  ELSE [queue |-> q, popped |-> <<>>, result |-> FALSE]

\* Worker.process_next_reminder on queue q at clock t: the head is popped
\* whether or not it is due; it is sent (result TRUE) only when due.
process_next_reminder(q, t) ==
  IF Len(q) > 0
  THEN [queue |-> Tail(q), popped |-> <<Head(q)>>, result |-> Head(q).dt <= t]
  ELSE [queue |-> q, popped |-> <<>>, result |-> FALSE]

\* process_reminders without the final scheduleReminderTask.
process_reminders_NoReschedule(id, q, rt, ts, sn, t) ==
  LET p == process_next_reminder(q, t)
  IN  IF p.result
      THEN [sorted_reminders |-> p.queue,
            reminder_task    |-> rt,
            tasks            |-> [ts EXCEPT ![id].st = "sending"],
            sent             |-> [sn EXCEPT ![p.popped[1]] = @ + 1]]
      ELSE [sorted_reminders |-> p.queue,
            reminder_task    |-> rt,
            tasks            |-> Without(ts, id),
            sent             |-> sn]

\* Worker.process_reminders of task id, from where it resumes to its next
\* suspension (the await of send_message) or to its end (the loop ends,
\* scheduleReminderTask runs, the task finishes).
process_reminders(id, q, rt, ts, sn, t) ==
  LET p == process_next_reminder(q, t)
  IN  IF p.result
      THEN [sorted_reminders |-> p.queue,
            reminder_task    |-> rt,
            tasks            |-> [ts EXCEPT ![id].st = "sending"],
            sent             |-> [sn EXCEPT ![p.popped[1]] = @ + 1]]
      ELSE LET s == scheduleReminderTask(p.queue, rt, ts)
           IN  [sorted_reminders |-> p.queue,
                reminder_task    |-> s.reminder_task,
                tasks            |-> Without(s.tasks, id),
                sent             |-> sn]

\* ----------------------------------------------------------- actions
\* The clock advances.
Tick ==
  /\ now < MaxTime
  /\ now' = now + 1
  /\ UNCHANGED <<remote, cals, sorted_reminders, reminder_task, tasks,
                 sync_alive, next_sync_dt, sent, cycles, last_result,
                 prev_sync>>

\* The calendar changes on the server: event u is added or removed.
RemoteChange(u) ==
  /\ remote' = IF u \in remote THEN remote \ {u} ELSE remote \cup {u}
  /\ UNCHANGED <<now, cals, sorted_reminders, reminder_task, tasks,
                 sync_alive, next_sync_dt, sent, cycles, last_result,
                 prev_sync>>

\* The pending sync task's sleep is over (run_at) and a sync cycle runs.
sync ==
  /\ sync_alive
  /\ now >= next_sync_dt
  /\ \E calOut \in {"ok", "raise"}, evOut \in {"ok", "raise"} :
       LET e == sync_effect(calOut, evOut)
       IN  /\ cals' = e.cals
           /\ sorted_reminders' = e.sorted_reminders
           /\ reminder_task' = e.reminder_task
           /\ tasks' = e.tasks
           /\ sync_alive' = e.sync_alive
           /\ next_sync_dt' = e.next_sync_dt
           /\ last_result' = e.result
           /\ prev_sync' = IF e.sync_alive
                           THEN [remote |-> remote, at |-> now]
                           ELSE prev_sync
  /\ cycles' = cycles + 1
  /\ UNCHANGED <<now, remote, sent>>

\* The wake-timer id fires: run_at's sleep is over, process_reminders
\* starts, clears reminder_task and drains up to its first send.
run_at_fire(id) ==
  /\ tasks[id].st = "sleeping"
  /\ now >= tasks[id].dt
  /\ LET d == process_reminders(id, sorted_reminders, 0, tasks, sent, now)
     IN  /\ sorted_reminders' = d.sorted_reminders
         /\ reminder_task' = d.reminder_task
         /\ tasks' = d.tasks
         /\ sent' = d.sent
  /\ prev_sync' = NoSync
  /\ UNCHANGED <<now, remote, cals, sync_alive, next_sync_dt, cycles,
                 last_result>>

\* send_message returns in the drain of task id: the loop goes on.
send_returns(id) ==
  /\ tasks[id].st = "sending"
  /\ LET d == process_reminders(id, sorted_reminders, reminder_task, tasks,
                                sent, now)
     IN  /\ sorted_reminders' = d.sorted_reminders
         /\ reminder_task' = d.reminder_task
         /\ tasks' = d.tasks
         /\ sent' = d.sent
  /\ prev_sync' = NoSync
  /\ UNCHANGED <<now, remote, cals, sync_alive, next_sync_dt, cycles,
                 last_result>>

\* send_message raises in the drain of task id: the exception is no
\* CancelledError, so it leaves process_reminders and run_at; the task
\* ends with it and scheduleReminderTask is not reached.
send_raises(id) ==
  /\ tasks[id].st = "sending"
  /\ tasks' = Without(tasks, id)
  /\ prev_sync' = NoSync
  /\ UNCHANGED <<now, remote, cals, sorted_reminders, reminder_task,
                 sync_alive, next_sync_dt, sent, cycles, last_result>>

\* CancelledError reaches a cancelled task at its await: run_at (for a
\* sleeping task) or process_reminders (for a sending one) swallows it
\* and the task ends.
cancel_delivered(id) ==
  /\ tasks[id].st = "cancelled"
  /\ tasks' = Without(tasks, id)
  /\ UNCHANGED <<now, remote, cals, sorted_reminders, reminder_task,
                 sync_alive, next_sync_dt, sent, cycles, last_result,
                 prev_sync>>

Next ==
  \/ Tick
  \/ \E u \in Uids : RemoteChange(u)
  \/ sync
  \/ \E id \in DOMAIN tasks : run_at_fire(id)
  \/ \E id \in DOMAIN tasks : send_returns(id)
  \/ \E id \in DOMAIN tasks : send_raises(id)
  \/ \E id \in DOMAIN tasks : cancel_delivered(id)

Spec == Init /\ [][Next]_vars

\* The same program over a calendar that never changes.
NextFixed ==
  \/ Tick
  \/ sync
  \/ \E id \in DOMAIN tasks : run_at_fire(id)
  \/ \E id \in DOMAIN tasks : send_returns(id)
  \/ \E id \in DOMAIN tasks : send_raises(id)
  \/ \E id \in DOMAIN tasks : cancel_delivered(id)

SpecFixed == Init /\ [][NextFixed]_vars

\* A sync cycle that does not raise.
sync_ok == sync /\ last_result' # "raised"

\* The program when nothing fails: the calendar does not change, no
\* sync cycle raises and every send returns.
NextOk ==
  \/ Tick
  \/ sync_ok
  \/ \E id \in DOMAIN tasks : run_at_fire(id)
  \/ \E id \in DOMAIN tasks : send_returns(id)
  \/ \E id \in DOMAIN tasks : cancel_delivered(id)

SpecOk == Init /\ [][NextOk]_vars

\* The program when no send raises (the calendar may change and sync
\* cycles may raise).
NextNoSendRaise ==
  \/ Tick
  \/ \E u \in Uids : RemoteChange(u)
  \/ sync
  \/ \E id \in DOMAIN tasks : run_at_fire(id)
  \/ \E id \in DOMAIN tasks : send_returns(id)
  \/ \E id \in DOMAIN tasks : cancel_delivered(id)

SpecNoSendRaise == Init /\ [][NextNoSendRaise]_vars

\* ------------------------------------------------------------ claims
\* The wake-timer armed for the head of queue q, or none for an empty q.
ArmedForHead(q, ts) ==
  LET sl == {id \in DOMAIN ts : ts[id].st = "sleeping"}
  IN  IF q = <<>> THEN sl = {}
      ELSE \E id \in sl : sl = {id} /\ ts[id].dt = q[1].dt

\* A sync cycle ran in this step / and ended in an exception.
SyncStep == cycles' = cycles + 1
SyncFailedStep == SyncStep /\ last_result' = "raised"

\* C1: in every reachable state at most one wake-timer is outstanding
\* (a run_at(process_reminders) task still sleeping and not cancelled).
C1_AtMostOneTimer == Cardinality(Sleeping) <= 1

\* C1 witness: a timer armed by a sync cycle is outstanding while a drain
\* is suspended in a send.
C1_Witness == Cardinality(Sleeping) = 1 /\ Sending # {} /\ cycles >= 2

\* C2: a sync cycle that raises still schedules the next cycle at
\* now + SYNC_INTERVAL_IN_SEC.
C2_ResyncSurvivesFailure ==
  [][SyncFailedStep =>
       sync_alive' /\ next_sync_dt' = now + SYNC_INTERVAL_IN_SEC]_vars

\* C3: a step of a drain whose sends succeed removes from the queue only
\* reminders that are due, dispatches each removed one, and when the
\* drain ends the timer is armed for the earliest remaining reminder
\* (no timer when none remains).
C3_DrainCorrectness ==
  [][\A id \in DOMAIN tasks :
       (run_at_fire(id) \/ send_returns(id)) =>
         /\ \A r \in Range(sorted_reminders) :
              r.dt > now => r \in Range(sorted_reminders')
         /\ \A r \in Range(sorted_reminders) \ Range(sorted_reminders') :
              sent'[r] = sent[r] + 1
         /\ id \notin DOMAIN tasks' =>
              ArmedForHead(sorted_reminders', tasks')]_vars

\* C4: over an unchanged calendar no reminder is dispatched twice, and a
\* dispatched reminder is never back in the queue.
C4_NoDoubleFire ==
  \A r \in AllReminders :
    /\ sent[r] <= 1
    /\ sent[r] >= 1 => r \notin Range(sorted_reminders)

\* C5: when a send raises, the failed reminder stays removed and the
\* drain goes on: either it is still running, or it has ended with no
\* due reminder left in the queue and the timer armed for the earliest
\* remaining one.
C5_DeliveryFailureIsolated ==
  [][\A id \in DOMAIN tasks :
       send_raises(id) =>
         /\ sorted_reminders' = sorted_reminders
         /\ \/ id \in DOMAIN tasks'
            \/ /\ \A r \in Range(sorted_reminders') : r.dt > now
               /\ ArmedForHead(sorted_reminders', tasks')]_vars

\* C6: after a sync cycle that ends without an exception the queue equals
\* the list extracted from the events fetched in that cycle, for every
\* event set, the empty one too (then no timer stays armed).
C6_SyncReplacesQueue ==
  [][(SyncStep /\ last_result' # "raised") =>
       /\ sorted_reminders' = extract_reminders(fetch_events(remote), now).val
       /\ sorted_reminders' = <<>> => Sleeping' = {}]_vars

FutureReminders(S, t) ==
  {r \in AllReminders : r.vevent \in S /\ r.dt >= t}

IsSortedByDt(q) == \A i, j \in 1..Len(q) : i < j => q[i].dt <= q[j].dt

\* C8: for every event list and clock value extract_reminders returns
\* exactly the reminders with fire instant >= now, each once, in
\* non-decreasing order of fire instant.
C8_ExtractionResult ==
  LET ex == extract_reminders(fetch_events(remote), now)
  IN  /\ ex.ok
      /\ Range(ex.val) = FutureReminders(remote, now)
      /\ Len(ex.val) = Cardinality(FutureReminders(remote, now))
      /\ IsSortedByDt(ex.val)

\* C9: when two reminders of the fetched events have equal fire
\* instants, a sync cycle whose fetches succeed does not fail on
\* comparing them: it ends without an exception and holds both in its
\* queue, ordered by fire instant.
C9_TiesHandled ==
  \A a, b \in FutureReminders(remote, now) :
    (a # b /\ a.dt = b.dt /\ sync_alive /\ now >= next_sync_dt) =>
      LET e == sync_effect("ok", "ok")
      IN  /\ e.result # "raised"
          /\ {a, b} \subseteq Range(e.sorted_reminders)
          /\ IsSortedByDt(e.sorted_reminders)

\* C10: a sync cycle that raises leaves the queue, the timer handle and
\* every wake-timer task (armed or not, and its deadline) as they were.
C10_FailedSyncChangesNothing ==
  [][SyncFailedStep =>
       UNCHANGED <<sorted_reminders, reminder_task, tasks>>]_vars

\* C10 witness: a sync cycle has raised while reminders were queued and
\* their timer armed.
C10_Witness ==
  /\ last_result = "raised"
  /\ sorted_reminders # <<>>
  /\ reminder_task \in Sleeping

\* C11: with an unchanged calendar, no failing sync cycle and no failing
\* send, a queued reminder leaves the queue only by being dispatched: no
\* drain and no sync cycle drops it unsent.
C11_NeverDroppedUnsent ==
  [][\A r \in Range(sorted_reminders) :
       r \notin Range(sorted_reminders') => sent'[r] = sent[r] + 1]_vars

\* C12: a send for a reminder begins only at a clock value now with
\* reminder.dt <= now.
C12_NeverEarly ==
  [][\A r \in AllReminders : sent'[r] > sent[r] => r.dt <= now]_vars

\* C12 witness: a reminder is being sent while a later one, not yet due,
\* is queued behind it.
C12_Witness ==
  /\ Sending # {}
  /\ \E r \in AllReminders : sent[r] >= 1
  /\ \E r \in Range(sorted_reminders) : r.dt > now

\* C13: no sync cycle runs between the start and the end of a drain: a
\* sync cycle never runs, and so never replaces the queue, while a drain
\* is suspended.
C13_HandlersDoNotInterleave == [][SyncStep => Sending = {}]_vars

\* C14: the first sync cycle is pending at startup; every sync cycle that
\* does not raise leaves the next one pending at now + SYNC_INTERVAL_IN_SEC;
\* no other step (timer fire, drain, cancellation, failed send, calendar
\* change, clock) touches the pending sync cycle.
C14_ResyncCadence ==
  [][/\ (cycles = 0 => sync_alive /\ next_sync_dt = 0)
     /\ (SyncStep /\ last_result' # "raised") =>
          sync_alive' /\ next_sync_dt' = now + SYNC_INTERVAL_IN_SEC
     /\ ~SyncStep => UNCHANGED <<sync_alive, next_sync_dt>>]_vars

\* C14 witness: after reminders were sent and a send has failed (queue
\* left without timer), a further sync cycle has run and the next one is
\* pending one interval ahead.
C14_Witness ==
  /\ cycles >= 2
  /\ sync_alive
  /\ next_sync_dt = now + SYNC_INTERVAL_IN_SEC
  /\ \E r \in AllReminders : sent[r] >= 1
  /\ sorted_reminders # <<>>
  /\ tasks = <<>>

\* C15: the queue is sorted non-decreasing by fire instant in every
\* reachable state.
C15_QueueSorted == IsSortedByDt(sorted_reminders)

\* C15 witness: a sync cycle has installed two or more reminders while a
\* drain is suspended in a send.
C15_Witness ==
  /\ Len(sorted_reminders) >= 2
  /\ Sending # {}
  /\ cycles >= 2
  /\ last_result = "replaced"

\* The deadlines of the outstanding timers among tasks ts.
ArmedDeadlines(ts) == {ts[i].dt : i \in {j \in DOMAIN ts : ts[j].st = "sleeping"}}

\* A step in which scheduleReminderTask runs: a sync cycle that replaces
\* the queue, or the end of a drain.
RescheduleStep ==
  \/ SyncStep /\ last_result' = "replaced"
  \/ \E id \in DOMAIN tasks :
       (run_at_fire(id) \/ send_returns(id)) /\ id \notin DOMAIN tasks'

\* C16: when scheduleReminderTask has run, every timer that was
\* outstanding before is no longer outstanding; exactly one timer is
\* armed, for the head of the queue, if the queue is non-empty and none
\* otherwise; running it once more on the same queue leaves the same
\* armed deadlines; cancelling a handle that is None or whose task has
\* ended changes nothing.
C16_ReschedulePostcondition ==
  [][RescheduleStep =>
       /\ Sleeping \cap {i \in DOMAIN tasks' : tasks'[i].st = "sleeping"} = {}
       /\ ArmedForHead(sorted_reminders', tasks')
       /\ LET again == scheduleReminderTask(sorted_reminders', reminder_task',
                                            tasks')
          IN  /\ ArmedForHead(sorted_reminders', again.tasks)
              /\ ArmedDeadlines(again.tasks) = ArmedDeadlines(tasks')
       /\ (reminder_task' \notin {i \in DOMAIN tasks' : tasks'[i].st \in {"sleeping", "sending"}} =>
            scheduleReminderTask(<<>>, reminder_task', tasks').tasks = tasks')
     ]_vars

\* C16 witness: scheduleReminderTask has cancelled the armed timer and
\* armed a new one for the head of a queue of two or more reminders.
C16_Witness ==
  /\ \E i \in DOMAIN tasks : tasks[i].st = "cancelled"
  /\ reminder_task \in Sleeping
  /\ Len(sorted_reminders) >= 2
  /\ sorted_reminders[1].dt < sorted_reminders[Len(sorted_reminders)].dt

\* C17: a drain suspended in a send is never cancelled, and it ends only
\* through its final scheduleReminderTask, which leaves the timer armed
\* for the head of the queue as it is then.
C17_DrainReachesReschedule ==
  [][\A id \in Sending :
       /\ id \in DOMAIN tasks' => tasks'[id].st = "sending"
       /\ id \notin DOMAIN tasks' => ArmedForHead(sorted_reminders', tasks')
     ]_vars

\* C18: at most one drain is in progress at any time.
C18_SingleDrain == Cardinality(Sending) <= 1

\* C19: when no send raises, in every state in which no drain is
\* suspended a timer is outstanding exactly when the queue is non-empty,
\* and its deadline is the fire instant of the head.
C19_ArmedIffPending == Sending = {} => ArmedForHead(sorted_reminders, tasks)

\* C19 witness: after a reminder was sent and the drain ended, reminders
\* are queued and the timer is armed for the head.
C19_Witness ==
  /\ Sending = {}
  /\ sorted_reminders # <<>>
  /\ reminder_task \in Sleeping
  /\ \E r \in AllReminders : sent[r] >= 1
  /\ prev_sync = NoSync

====
